---- MODULE Spec2Model ----
(***************************************************************************)
(* Supabase MCP server: the tool catalog, the CallTool dispatcher, the     *)
(* approval gate and the refresh notifier, in the two builds of the        *)
(* repository:                                                             *)
(*   "direct"  src/src/index.ts       (the switch is entered at once)       *)
(*   "gated"   src/unnamed/part_000   (approval promise, then the switch)   *)
(*                                                                         *)
(* Texts are sequences of tokens: a template literal `Unknown tool: ${n}`  *)
(* is <<"Unknown tool:", n>>, so that "the message names field f" is "f is *)
(* a token of the text".                                                   *)
(***************************************************************************)
EXTENDS Integers, Sequences, FiniteSets, TLC

\* ------------------------------------------------------------------ bounds
\* CallTool requests that may be in flight together (specification SpecGate).
MaxCalls == 2
\* Distinct values Math.random().toString(36).substring(7) takes in a run.
MaxIds == 2
\* Distinct callbacks handed to onToolRefresh.
MaxCallbacks == 2
\* ListTools requests in a run.
MaxLists == 2
\* Calls of the unregister functions of one callback.
MaxUnregisters == 2
\* Calls of onToolRefresh with one callback.
MaxRegistrations == 2
\* Top-level fields of a filter argument.
MaxFilterFields == 2
\* Join specs of a joins argument.
MaxJoins == 3
\* GET /sse requests in a run.
MaxStreams == 2
\* POST /message requests in a run.
MaxPosts == 2

Calls == 1..MaxCalls
RequestIds == 1..MaxIds
Callbacks == 1..MaxCallbacks

Variants == {"direct", "gated"}

\* --------------------------------------------------------------- the state
VARIABLES
  variant,                \* which build runs
  calls,                  \* per CallTool request: position, input, history
  toolApprovalCallbacks,  \* Map<requestId, resolve>: id -> the call whose promise resolve settles
  toolRefreshCallbacks,   \* Set<callback>, in insertion order
  unregisterFns,          \* per callback, the unregister functions onToolRefresh has returned
  refreshes,              \* history: ListTools requests handled, the last one, calls per callback
  server                  \* run(): its position, the connection promise, the timer, the listener

vars == <<variant, calls, toolApprovalCallbacks, toolRefreshCallbacks, unregisterFns, refreshes, server>>

\* ------------------------------------------------------------ tool tables
\* One case of the switch: the arguments its guard tests (the same list the
\* message names, in every case of both builds), the first property of
\* typedArgs the case reads, the external operation it awaits, the text it
\* returns on success, whether it decodes the file first and whether a failed
\* operation is followed by a second one.
ClientTool(check, firstRead, op, success) ==
  [check |-> check, firstRead |-> firstRead, kind |-> "client", op |-> op,
   success |-> success, failed |-> "", decodes |-> FALSE, fallback |-> ""]

FetchTool(check, firstRead, op, success, failed) ==
  [check |-> check, firstRead |-> firstRead, kind |-> "fetch", op |-> op,
   success |-> success, failed |-> failed, decodes |-> FALSE, fallback |-> ""]

DirectHandlers ==
  [create_record |-> ClientTool(<<"table", "data">>, "table", "from.insert.select", "data"),
   read_records |-> ClientTool(<<"table">>, "table", "from.select", "data"),
   update_record |-> ClientTool(<<"table", "data">>, "table", "from.update", "data"),
   delete_record |-> ClientTool(<<"table">>, "table", "from.delete", "data"),
   upload_file |-> ClientTool(<<"bucket", "path", "file">>, "bucket", "storage.upload", "data"),
   download_file |-> ClientTool(<<"bucket", "path">>, "bucket", "storage.download", "data"),
   invoke_function |-> ClientTool(<<"function">>, "function", "functions.invoke", "data"),
   list_projects |-> FetchTool(<<>>, "", "GET /projects", "data", "Failed to list projects:"),
   get_project |-> FetchTool(<<"project_id">>, "project_id", "GET /projects/id", "data",
                             "Failed to get project:"),
   create_project |-> FetchTool(<<"name", "organization_id", "region", "db_pass">>, "name",
                                "POST /projects", "data", "Failed to create project:"),
   delete_project |-> FetchTool(<<"project_id">>, "project_id", "DELETE /projects/id",
                                "Project deleted successfully", "Failed to delete project:"),
   list_organizations |-> FetchTool(<<>>, "", "GET /organizations", "data",
                                    "Failed to list organizations:"),
   get_organization |-> FetchTool(<<"organization_id">>, "organization_id",
                                  "GET /organizations/id", "data", "Failed to get organization:"),
   create_organization |-> FetchTool(<<"name">>, "name", "POST /organizations", "data",
                                     "Failed to create organization:"),
   get_project_api_keys |-> FetchTool(<<"project_id">>, "project_id", "GET /projects/id/api-keys",
                                      "data", "Failed to get project API keys:"),
   list_users |-> ClientTool(<<>>, "page", "auth.admin.listUsers", "data"),
   get_user |-> ClientTool(<<"user_id">>, "user_id", "auth.admin.getUserById", "data"),
   create_user |-> ClientTool(<<"email", "password">>, "email", "auth.admin.createUser", "data"),
   update_user |-> ClientTool(<<"user_id">>, "user_id", "auth.admin.updateUserById", "data"),
   delete_user |-> ClientTool(<<"user_id">>, "user_id", "auth.admin.deleteUser",
                              "User deleted successfully"),
   assign_user_role |-> ClientTool(<<"user_id", "role">>, "user_id", "auth.admin.assignUserRole",
                                   "Role assigned successfully"),
   remove_user_role |-> ClientTool(<<"user_id", "role">>, "user_id", "auth.admin.removeUserRole",
                                   "Role removed successfully")]

GatedHandlers ==
  [create_record |-> ClientTool(<<"table", "data">>, "table", "from.insert.select", "data"),
   list_tables |-> [ClientTool(<<>>, "schema", "rpc.list_tables", "data or []")
                      EXCEPT !.fallback = "from.information_schema.tables.select"],
   read_records |-> ClientTool(<<"table">>, "table", "from.select", "data"),
   update_records |-> ClientTool(<<"table", "data", "filter">>, "table", "from.update", "data"),
   delete_records |-> ClientTool(<<"table", "filter">>, "table", "from.delete", "data"),
   upload_file |-> [ClientTool(<<"bucket", "path", "file">>, "bucket", "storage.upload", "data")
                      EXCEPT !.decodes = TRUE],
   download_file |-> ClientTool(<<"bucket", "path">>, "bucket", "storage.download", "data"),
   invoke_function |-> ClientTool(<<"function">>, "function", "functions.invoke", "data"),
   list_users |-> ClientTool(<<>>, "page", "auth.admin.listUsers", "data"),
   create_user |-> ClientTool(<<"email", "password">>, "email", "auth.admin.createUser", "data"),
   update_user |-> ClientTool(<<"user_id">>, "user_id", "auth.admin.updateUserById", "data"),
   delete_user |-> ClientTool(<<"user_id">>, "user_id", "auth.admin.deleteUser", "success: true"),
   assign_user_role |-> ClientTool(<<"user_id", "role">>, "user_id", "auth.admin.assignUserRole",
                                   "success: true"),
   remove_user_role |-> ClientTool(<<"user_id", "role">>, "user_id", "auth.admin.removeUserRole",
                                   "success: true")]

Handlers(v) == IF v = "direct" THEN DirectHandlers ELSE GatedHandlers

\* The catalog ListTools returns: each tool's name and its inputSchema.required.
Tool(name, required) == [name |-> name, required |-> required]

DirectCatalog ==
  << Tool("create_record", <<"table", "data">>), Tool("read_records", <<"table">>),
     Tool("update_record", <<"table", "data">>), Tool("delete_record", <<"table">>),
     Tool("upload_file", <<"bucket", "path", "file">>), Tool("download_file", <<"bucket", "path">>),
     Tool("invoke_function", <<"function">>), Tool("list_projects", <<>>),
     Tool("get_project", <<"project_id">>),
     Tool("create_project", <<"name", "organization_id", "region", "db_pass">>),
     Tool("delete_project", <<"project_id">>), Tool("list_organizations", <<>>),
     Tool("get_organization", <<"organization_id">>), Tool("create_organization", <<"name">>),
     Tool("get_project_api_keys", <<"project_id">>), Tool("list_users", <<>>),
     Tool("get_user", <<"user_id">>), Tool("create_user", <<"email", "password">>),
     Tool("update_user", <<"user_id">>), Tool("delete_user", <<"user_id">>),
     Tool("assign_user_role", <<"user_id", "role">>),
     Tool("remove_user_role", <<"user_id", "role">>) >>

GatedCatalog ==
  << Tool("list_tables", <<>>), Tool("create_record", <<"table", "data">>),
     Tool("read_records", <<"table">>), Tool("update_records", <<"table", "data", "filter">>),
     Tool("delete_records", <<"table", "filter">>),
     Tool("upload_file", <<"bucket", "path", "file">>), Tool("download_file", <<"bucket", "path">>),
     Tool("invoke_function", <<"function">>), Tool("list_users", <<>>),
     Tool("create_user", <<"email", "password">>), Tool("update_user", <<"user_id">>),
     Tool("delete_user", <<"user_id">>), Tool("assign_user_role", <<"user_id", "role">>),
     Tool("remove_user_role", <<"user_id", "role">>) >>

Catalog(v) == IF v = "direct" THEN DirectCatalog ELSE GatedCatalog

Range(s) == {s[i] : i \in 1..Len(s)}

CatalogNames(v) == {t.name : t \in Range(Catalog(v))}

\* inputSchema.required of a listed tool.
Required(v, name) ==
  LET t == CHOOSE x \in Range(Catalog(v)) : x.name = name IN Range(t.required)

\* ------------------------------------------------------------- arguments
\* request.params.arguments: absent, or a bag giving some fields a value. A
\* value is known by what the code tests of it: truthy, falsy, or (for a file)
\* truthy with a payload atob cannot decode.
EmptyBag == [f \in {} |-> "truthy"]

Undefined == [defined |-> FALSE, bag |-> EmptyBag]

Bag(b) == [defined |-> TRUE, bag |-> b]

ValueClasses(f) == IF f = "file" THEN {"truthy", "falsy", "malformed"} ELSE {"truthy", "falsy"}

Bags(fields) ==
  UNION {{b \in [S -> {"truthy", "falsy", "malformed"}] : \A f \in S : b[f] \in ValueClasses(f)} :
         S \in SUBSET fields}

ArgBags(fields) == {Undefined} \cup {Bag(b) : b \in Bags(fields)}

TruthyMutant(args, f) == f \in DOMAIN args.bag

\* !typedArgs.f is false
Truthy(args, f) == f \in DOMAIN args.bag /\ args.bag[f] # "falsy"

\* the bag gives f no value
Omitted(args, f) == f \notin DOMAIN args.bag

\* ---------------------------------------------- read_records: the query
\* A value of a filter field: a scalar, or a mapping {op: val, ...} given by its
\* entries in insertion order.
Scalar(v) == [kind |-> "scalar", v |-> v, ops |-> <<>>]

Mapping(ops) == [kind |-> "mapping", v |-> "", ops |-> ops]

\* typedArgs.filter and typedArgs.joins: absent, or the entries / the elements.
Absent == [given |-> FALSE, entries |-> <<>>]

Given(entries) == [given |-> TRUE, entries |-> entries]

\* The arguments of a read_records request that names a table.
ReadArgs(filter, joins) ==
  [defined |-> TRUE, bag |-> [f \in {"table"} |-> "truthy"], filter |-> filter, joins |-> joins]

\* A method called on the query builder the supabase client hands out.
BuilderCall(method, key, op, value) == [method |-> method, key |-> key, op |-> op, value |-> value]

\* typeof value === 'object' && value !== null
IsObject(value) == value.kind = "mapping"

\* Object.entries(conditions).forEach(([op, val]) => query = query.filter(key, op, val))
FilterCalls(key, ops) == [i \in 1..Len(ops) |-> BuilderCall("filter", key, ops[i].op, ops[i].val)]

\* query = query.eq(key, value)
EqCall(key, value) == BuilderCall("eq", key, "", value)

\* Direct build: for (const [key, value] of Object.entries(filter)) { ... }
RECURSIVE DirectFilter(_)
DirectFilter(entries) ==
  IF entries = <<>> THEN <<>>
  ELSE LET e == Head(entries) IN
       (IF IsObject(e.value) THEN FilterCalls(e.key, e.value.ops) ELSE <<EqCall(e.key, e.value)>>)
         \o DirectFilter(Tail(entries))

\* Gated build: Object.entries(typedArgs.filter).forEach(([key, value]) => query = query.eq(key, value))
GatedFilter(entries) == [i \in 1..Len(entries) |-> EqCall(entries[i].key, entries[i].value)]

\* const joinType = join.type || 'left'   (an omitted type is "")
JoinType(join) == IF join.type = "" THEN "left" ELSE join.type

JoinMethods ==
  [inner |-> "innerJoin", left |-> "leftJoin", right |-> "rightJoin", full |-> "fullOuterJoin"]

JoinCallMutant(join) ==
  <<BuilderCall(IF JoinType(join) \in DOMAIN JoinMethods THEN JoinMethods[JoinType(join)]
                ELSE "leftJoin", join.table, join.on, Scalar(""))>>

\* switch (joinType): one builder method per type, none for any other type.
JoinCall(join) ==
  IF JoinType(join) \in DOMAIN JoinMethods
  THEN <<BuilderCall(JoinMethods[JoinType(join)], join.table, join.on, Scalar(""))>>
  ELSE <<>>

\* Gated build: typedArgs.joins.forEach((join) => { ... })
RECURSIVE GatedJoins(_)
GatedJoins(joins) ==
  IF joins = <<>> THEN <<>> ELSE JoinCall(Head(joins)) \o GatedJoins(Tail(joins))

FilterOf(args) == IF "filter" \in DOMAIN args THEN args.filter ELSE Absent

JoinsOf(args) == IF "joins" \in DOMAIN args THEN args.joins ELSE Absent

\* The builder calls of the read_records case, in order, up to `await`. The
\* direct build selects and then filters, and reads no joins; the gated build
\* filters, joins and then selects.
ReadRecords(v, args) ==
  LET from == BuilderCall("from", "table", "", Scalar(""))
      select == BuilderCall("select", "*", "", Scalar(""))
      filter == FilterOf(args)
      joins == JoinsOf(args)
  IN IF v = "direct"
     THEN <<from, select>> \o (IF filter.given THEN DirectFilter(filter.entries) ELSE <<>>)
     ELSE <<from>> \o (IF filter.given THEN GatedFilter(filter.entries) ELSE <<>>)
                   \o (IF joins.given THEN GatedJoins(joins.entries) ELSE <<>>)
                   \o <<select>>

\* The update and delete cases.
WriteTools == {"update_record", "delete_record", "update_records", "delete_records"}

WriteMethod(name) == IF name \in {"update_record", "update_records"} THEN "update" ELSE "delete"

\* The arguments of an update or delete request that gives table and data, and
\* the filter when it has one.
WriteArgs(filter) ==
  [defined |-> TRUE,
   bag |-> [f \in {"table", "data"} \cup (IF filter.given THEN {"filter"} ELSE {}) |-> "truthy"],
   filter |-> filter, joins |-> Absent]

\* Direct build, update_record and delete_record:
\* for (const [key, value] of Object.entries(filter)) { query = query.eq(key, value) }
DirectWriteFilter(entries) == [i \in 1..Len(entries) |-> EqCall(entries[i].key, entries[i].value)]

\* The builder calls of an update or delete case, in order, up to `await`. The
\* direct build updates or deletes and then filters; the gated build filters
\* first.
WriteRecords(v, name, args) ==
  LET from == BuilderCall("from", "table", "", Scalar(""))
      write == BuilderCall(WriteMethod(name), "data", "", Scalar(""))
      filter == FilterOf(args)
  IN IF v = "direct"
     THEN <<from, write>> \o (IF filter.given THEN DirectWriteFilter(filter.entries) ELSE <<>>)
     ELSE <<from>> \o GatedFilter(filter.entries) \o <<write>>

\* ---------------------------------------------------------------- faults
\* A thrown value: whether it is an instance of Error, and its message.
Error(message) == [instanceofError |-> TRUE, message |-> message]

\* new McpError(code, message): an Error whose message carries the code.
McpError(code, message) == Error(<<"MCP error", code>> \o message)

\* typedArgs.f with typedArgs undefined.
TypeError(f) == Error(<<"Cannot read properties of undefined, reading", f>>)

\* atob of a payload that is not base64.
DecodeError == Error(<<"The string to be decoded is not correctly encoded">>)

DeniedMessage == <<"Tool call was denied by user">>

MissingMessage(check) ==
  <<IF Len(check) = 1 THEN "Missing required parameter:" ELSE "Missing required parameters:">>
    \o check

UnknownToolMessage(name) == <<"Unknown tool:", name>>

\* What the external operation op answers with when it fails.
UpstreamMessage(op) == <<"upstream failure of", op>>

\* What it answers with when it succeeds.
UpstreamData(op) == <<"data of", op>>

\* The error member of a supabase-js answer {data, error}: an Error instance, or a
\* plain object with a message member.
ClientError(reply, op) == [instanceofError |-> reply = "error", message |-> UpstreamMessage(op)]

ClientReplies == {"data", "error", "errorObject"}

\* fetch and response.json(): response.ok, !response.ok, or a rejection.
FetchReplies == {"ok", "notOk", "rejected"}

\* -------------------------------------------------------------- envelopes
Stringify(data) == <<"JSON.stringify">> \o data

SuccessEnvelope(text) == [content |-> <<[type |-> "text", text |-> text]>>]

\* error instanceof Error ? error.message : 'Unknown error occurred'
ErrorMessage(error) ==
  IF error.instanceofError THEN error.message ELSE <<"Unknown error occurred">>

ErrorEnvelope(error) ==
  [content |-> <<[type |-> "text", text |-> <<"Error:">> \o ErrorMessage(error)]>>,
   isError |-> TRUE]

\* How far a piece of the handler's body got: it returned an envelope, threw, or
\* is suspended on an external operation.
Return(envelope) == [kind |-> "return", envelope |-> envelope]

Throw(error) == [kind |-> "throw", error |-> error]

Await(op) == [kind |-> "await", op |-> op]

\* suspended on a query, with the builder calls that made it
AwaitQuery(op, query) == [kind |-> "await", op |-> op, query |-> query]

TryCatchMutant(outcome) ==
  IF outcome.kind = "throw" /\ outcome.error.message[1] # "MCP error" THEN outcome
  ELSE IF outcome.kind = "throw" THEN Return(ErrorEnvelope(outcome.error))
  ELSE outcome

\* try { ... } catch (error) { return { content: [...], isError: true } }
TryCatch(outcome) ==
  IF outcome.kind = "throw" THEN Return(ErrorEnvelope(outcome.error)) ELSE outcome

\* ------------------------------------------------------------- the switch
MissingRequiredMutant(h, args) == Len(h.check) > 0 /\ ~Truthy(args, h.check[1])

\* !typedArgs.a || !typedArgs.b || ...
MissingRequired(h, args) == \E i \in 1..Len(h.check) : ~Truthy(args, h.check[i])

\* default: throw new McpError(ErrorCode.MethodNotFound, `Unknown tool: ${name}`)
SwitchDefault(v, name) == Throw(McpError("MethodNotFound", UnknownToolMessage(name)))

\* switch (name): the case's body up to its first await.
Switch(v, name, args) ==
  IF name \notin DOMAIN Handlers(v) THEN SwitchDefault(v, name)
  ELSE LET h == Handlers(v)[name] IN
       IF ~args.defined /\ h.firstRead # "" THEN Throw(TypeError(h.firstRead))
       ELSE IF MissingRequired(h, args)
         THEN Throw(McpError("InvalidParams", MissingMessage(h.check)))
       ELSE IF h.decodes /\ args.bag["file"] = "malformed" THEN Throw(DecodeError)
       ELSE IF name = "read_records" THEN AwaitQuery(h.op, ReadRecords(v, args))
       ELSE IF name \in WriteTools THEN AwaitQuery(h.op, WriteRecords(v, name, args))
       ELSE Await(h.op)

SuccessTextMutant(h, op) == UpstreamData(op)

\* The text of the envelope a case returns: JSON.stringify(data, null, 2) of the
\* answer's data, of the table list (list_tables), of {success: true}, or a
\* plain sentence.
SuccessText(h, op) ==
  IF h.success = "data" THEN Stringify(UpstreamData(op))
  ELSE IF h.success = "data or []" THEN
    (IF op = h.op THEN Stringify(UpstreamData(op))
     ELSE Stringify(<<"table_name of">> \o UpstreamData(op)))
  ELSE IF h.success = "success: true" THEN Stringify(<<"success", "true">>)
  ELSE <<h.success>>

ResumedMutant(v, name, op, reply) ==
  IF reply \in {"data", "ok"} THEN Return(SuccessEnvelope(SuccessText(Handlers(v)[name], op)))
  ELSE Return(SuccessEnvelope(<<"null">>))

FallbackMutant(h, op) == ""

\* if (error) { ... await <second query> }: the operation a case invokes when
\* op has answered with an error; none but after the first of list_tables.
Fallback(h, op) == IF op = h.op THEN h.fallback ELSE ""

\* The case's body from the answer of the operation op it awaited.
Resumed(v, name, op, reply) ==
  LET h == Handlers(v)[name] IN
  IF h.kind = "client" THEN
    IF reply = "data" THEN Return(SuccessEnvelope(SuccessText(h, op)))
    ELSE IF Fallback(h, op) # "" THEN Await(Fallback(h, op))
    ELSE Throw(ClientError(reply, op))
  ELSE
    IF reply = "ok" THEN Return(SuccessEnvelope(SuccessText(h, op)))
    ELSE IF reply = "notOk" THEN Throw(Error(<<h.failed>> \o UpstreamMessage(op)))
    ELSE Throw(Error(UpstreamMessage(op)))

Replies(v, name) == IF Handlers(v)[name].kind = "client" THEN ClientReplies ELSE FetchReplies

\* -------------------------------------------------------- the approval gate
\* The first property of args getToolDescription reads in its case for a tool;
\* its default case reads none.
DescriptionReads ==
  [create_record |-> "table", list_tables |-> "schema", read_records |-> "table",
   update_records |-> "table", delete_records |-> "table", upload_file |-> "bucket",
   download_file |-> "bucket", invoke_function |-> "function", list_users |-> "page",
   create_user |-> "email", update_user |-> "user_id", delete_user |-> "user_id",
   assign_user_role |-> "role", remove_user_role |-> "role"]

\* getToolDescription(name, typedArgs) inside the promise executor: it throws
\* when typedArgs is undefined and the tool has a case.
getToolDescription(name, args) ==
  IF name \in DOMAIN DescriptionReads /\ ~args.defined
  THEN Throw(TypeError(DescriptionReads[name]))
  ELSE Return(<<"description of", name>>)

\* console.log(JSON.stringify({type: 'tool_call', requestId, tool, arguments, description}))
Notification(requestId, name, args) ==
  [type |-> "tool_call", requestId |-> requestId, tool |-> name, arguments |-> args]

DeniedMutant(approved) == FALSE

\* if (!approved)
Denied(approved) == ~approved

\* --------------------------------------------------------------- requests
IdleCall ==
  [pc |-> "idle", name |-> "", args |-> Undefined, requestId |-> 0, approval |-> "none",
   approvedSeen |-> FALSE, concurrent |-> FALSE, notifications |-> <<>>, invoked |-> <<>>, query |-> <<>>,
   replies |-> <<>>, responses |-> <<>>]

NoTickets == [id \in {} |-> 0]

NoRefreshes ==
  [count |-> 0, registered |-> <<>>, invoked |-> <<>>, threw |-> {}, result |-> Return(<<>>),
   invocations |-> [cb \in Callbacks |-> 0], unregistered |-> [cb \in Callbacks |-> 0]]

\* Before run(): no promise, no timer, no listener, no transport connected.
NotStarted ==
  [pc |-> "idle", transport |-> "none", promise |-> "none", reason |-> "", timeoutId |-> "none",
   httpServer |-> "none", connected |-> "none", streams |-> 0, error |-> "",
   value |-> 0, attached |-> 0, posts |-> <<>>]

Init ==
  /\ server = NotStarted
  /\ variant \in Variants
  /\ calls = [c \in Calls |-> IdleCall]
  /\ toolApprovalCallbacks = NoTickets
  /\ toolRefreshCallbacks = <<>>
  /\ unregisterFns = [cb \in Callbacks |-> 0]
  /\ refreshes = NoRefreshes

AdvanceMutant(call, outcome) ==
  IF outcome.kind = "await"
  THEN [call EXCEPT !.pc = "awaitingCollaborator", !.invoked = Append(@, outcome.op),
                    !.query = IF "query" \in DOMAIN outcome THEN outcome.query ELSE @]
  ELSE IF "isError" \in DOMAIN outcome.envelope THEN [call EXCEPT !.pc = "unanswered"]
  ELSE [call EXCEPT !.pc = "returned", !.responses = Append(@, outcome)]

\* The handler's body ran to `outcome`: the call has returned (an envelope, or a
\* fault that escaped), or is suspended on the operation it invoked.
Advance(call, outcome) ==
  IF outcome.kind = "await"
  THEN [call EXCEPT !.pc = "awaitingCollaborator", !.invoked = Append(@, outcome.op),
                    !.query = IF "query" \in DOMAIN outcome THEN outcome.query ELSE @]
  ELSE [call EXCEPT !.pc = "returned", !.responses = Append(@, outcome)]

\* CallTool, direct build: the switch runs at once.
CallToolDirect(c, name, args) ==
  /\ variant = "direct"
  /\ calls[c].pc = "idle"
  /\ calls' = [calls EXCEPT ![c] =
       Advance([@ EXCEPT !.name = name, !.args = args], TryCatch(Switch(variant, name, args)))]
  /\ UNCHANGED <<server, variant, toolApprovalCallbacks, toolRefreshCallbacks, unregisterFns, refreshes>>

MapSetMutant(map, requestId, c) ==
  [id \in DOMAIN map \cup {requestId} |-> IF id \in DOMAIN map THEN map[id] ELSE c]

\* this.toolApprovalCallbacks.set(requestId, resolve), resolve being that of
\* the promise of call c: an entry already stored under the id is replaced.
MapSet(map, requestId, c) ==
  [id \in DOMAIN map \cup {requestId} |-> IF id = requestId THEN c ELSE map[id]]

\* CallTool, gated build, up to `await new Promise(...)`: the executor stores
\* resolve under a fresh random id and logs the notification; if building the
\* notification throws, the promise is rejected and the catch returns at once,
\* the entry staying in the map.
CallToolGated(c, name, args, requestId) ==
  /\ variant = "gated"
  /\ calls[c].pc = "idle"
  /\ toolApprovalCallbacks' = MapSet(toolApprovalCallbacks, requestId, c)
  /\ LET call == [calls[c] EXCEPT !.name = name, !.args = args, !.requestId = requestId]
         description == getToolDescription(name, args)
     IN calls' = [calls EXCEPT ![c] =
          IF description.kind = "throw"
          THEN Advance([call EXCEPT !.approval = "rejected"], TryCatch(description))
          ELSE [call EXCEPT !.pc = "awaitingApproval",
                            !.notifications = Append(@, Notification(requestId, name, args))]]
  /\ UNCHANGED <<server, variant, toolRefreshCallbacks, unregisterFns, refreshes>>

\* resolve(approved) of the promise of call c: settles it when it is pending,
\* and does nothing when it has been settled or rejected.
ResolveMutant(call, approved) ==
  IF call.pc = "awaitingApproval" THEN [call EXCEPT !.pc = "resumed", !.approval = "approved"]
  ELSE call

Resolve(call, approved) ==
  IF call.pc = "awaitingApproval"
  THEN [call EXCEPT !.pc = "resumed", !.approval = IF approved THEN "approved" ELSE "denied"]
  ELSE call

MapDeleteMutant(map, requestId) == [id \in {} |-> 0]

\* this.toolApprovalCallbacks.delete(requestId)
MapDelete(map, requestId) == [id \in DOMAIN map \ {requestId} |-> map[id]]

\* handleToolApproval(requestId, approved). (approvedSeen and concurrent are
\* history: the method was called with the call's id and approved = true while
\* the call was suspended on its promise; the call's promise was settled while
\* another call was suspended.)
handleToolApproval(requestId, approved) ==
  /\ variant = "gated"
  /\ LET noted == [c \in Calls |->
           IF calls[c].pc = "awaitingApproval" /\ calls[c].requestId = requestId /\ approved
           THEN [calls[c] EXCEPT !.approvedSeen = TRUE] ELSE calls[c]]
     IN IF requestId \in DOMAIN toolApprovalCallbacks
        THEN LET c == toolApprovalCallbacks[requestId] IN
             /\ calls' = [noted EXCEPT ![c] =
                  [Resolve(@, approved) EXCEPT !.concurrent =
                     \/ @
                     \/ /\ calls[c].pc = "awaitingApproval"
                        /\ \E d \in Calls \ {c} : calls[d].pc = "awaitingApproval"]]
             /\ toolApprovalCallbacks' = MapDelete(toolApprovalCallbacks, requestId)
        ELSE /\ calls' = noted
             /\ UNCHANGED toolApprovalCallbacks
  /\ UNCHANGED <<server, variant, toolRefreshCallbacks, unregisterFns, refreshes>>

\* The handler of call c continues after the await of the approval promise:
\* the denial check, then the switch.
Gate(v, name, args, approved) ==
  IF Denied(approved) THEN Throw(McpError("InvalidRequest", DeniedMessage))
  ELSE Switch(v, name, args)

ResumeCall(c) ==
  /\ calls[c].pc = "resumed"
  /\ calls' = [calls EXCEPT ![c] =
       Advance(@, TryCatch(Gate(variant, @.name, @.args, @.approval = "approved")))]
  /\ UNCHANGED <<server, variant, toolApprovalCallbacks, toolRefreshCallbacks, unregisterFns, refreshes>>

\* The operation call c awaits settles with `reply`; the case's body continues.
CollaboratorReply(c, reply) ==
  /\ calls[c].pc = "awaitingCollaborator"
  /\ reply \in Replies(variant, calls[c].name)
  /\ calls' = [calls EXCEPT ![c] =
       Advance([@ EXCEPT !.replies = Append(@, reply)],
               TryCatch(Resumed(variant, @.name, @.invoked[Len(@.invoked)], reply)))]
  /\ UNCHANGED <<server, variant, toolApprovalCallbacks, toolRefreshCallbacks, unregisterFns, refreshes>>

\* ---------------------------------------------------------------- inputs
UnknownTools == {"no_such_tool"}

ToolNames == DOMAIN DirectHandlers \cup DOMAIN GatedHandlers \cup UnknownTools

\* The arguments the builds test of a tool.
FieldsOf(name) ==
  (IF name \in DOMAIN DirectHandlers THEN Range(DirectHandlers[name].check) ELSE {})
    \cup (IF name \in DOMAIN GatedHandlers THEN Range(GatedHandlers[name].check) ELSE {})

\* ----------------------------------------------- one request, every input
CallTool(c) ==
  \E name \in ToolNames : \E args \in ArgBags(FieldsOf(name)) :
    \/ CallToolDirect(c, name, args)
    \/ \E requestId \in RequestIds : CallToolGated(c, name, args, requestId)

Approve == \E requestId \in RequestIds, approved \in BOOLEAN : handleToolApproval(requestId, approved)

Reply(c) == \E reply \in ClientReplies \cup FetchReplies : CollaboratorReply(c, reply)

Next ==
  \/ CallTool(1)
  \/ Approve
  \/ ResumeCall(1)
  \/ Reply(1)

Spec == Init /\ [][Next]_vars

\* ------------------------------------------------------ refresh listeners
\* Set.prototype.add: insertion order is kept, a member is not added again.
SetAdd(set, cb) == IF cb \in Range(set) THEN set ELSE Append(set, cb)

SetDeleteMutant(set, cb) == IF cb \in Range(set) THEN SelectSeq(set, LAMBDA x : x # cb) ELSE Append(set, cb)

\* Set.prototype.delete: removes the member if it is there; it never throws.
SetDelete(set, cb) == SelectSeq(set, LAMBDA x : x # cb)

\* onToolRefresh(callback): adds it and returns the function that deletes it.
onToolRefresh(cb) ==
  /\ variant = "gated"
  /\ unregisterFns[cb] < MaxRegistrations
  /\ toolRefreshCallbacks' = SetAdd(toolRefreshCallbacks, cb)
  /\ unregisterFns' = [unregisterFns EXCEPT ![cb] = @ + 1]
  /\ UNCHANGED <<server, variant, calls, toolApprovalCallbacks, refreshes>>

\* A call of the function onToolRefresh(cb) returned. (refreshes.unregistered
\* is history: how often the functions returned for cb have been called.)
unregister(cb) ==
  /\ unregisterFns[cb] > 0
  /\ refreshes.unregistered[cb] < MaxUnregisters
  /\ toolRefreshCallbacks' = SetDelete(toolRefreshCallbacks, cb)
  /\ refreshes' = [refreshes EXCEPT !.unregistered[cb] = @ + 1]
  /\ UNCHANGED <<server, variant, calls, toolApprovalCallbacks, unregisterFns>>

\* this.toolRefreshCallbacks.forEach(callback => callback()): the callbacks
\* called, in order, when those of `throwing` throw. Nothing catches: the first
\* throw ends the loop.
RECURSIVE forEach(_, _)
forEach(set, throwing) ==
  IF set = <<>> THEN <<>>
  ELSE IF Head(set) \in throwing THEN <<Head(set)>>
  ELSE <<Head(set)>> \o forEach(Tail(set), throwing)

ListedTools(v) == [i \in 1..Len(Catalog(v)) |-> Catalog(v)[i].name]

\* The ListTools handler: the refresh callbacks (gated build), then the tools.
\* It has no try: a callback's throw is the handler's.
ListToolsBody(v, set, throwing) ==
  IF v = "gated" /\ \E cb \in Range(forEach(set, throwing)) : cb \in throwing
  THEN Throw(Error(<<"listener failure">>))
  ELSE Return(ListedTools(v))

ListTools(throwing) ==
  /\ refreshes.count < MaxLists
  /\ variant = "direct" => throwing = {}
  /\ LET called == IF variant = "gated" THEN forEach(toolRefreshCallbacks, throwing) ELSE <<>>
     IN refreshes' =
          [count |-> refreshes.count + 1,
           registered |-> toolRefreshCallbacks,
           invoked |-> called,
           threw |-> throwing \cap Range(called),
           result |-> ListToolsBody(variant, toolRefreshCallbacks, throwing),
           invocations |-> [cb \in Callbacks |->
              refreshes.invocations[cb] + Cardinality({i \in 1..Len(called) : called[i] = cb})],
           unregistered |-> refreshes.unregistered]
  /\ UNCHANGED <<server, variant, calls, toolApprovalCallbacks, toolRefreshCallbacks, unregisterFns>>

Register == \E cb \in Callbacks : onToolRefresh(cb)

Unregister == \E cb \in Callbacks : unregister(cb)

List == \E throwing \in SUBSET Callbacks : ListTools(throwing)

NextRefresh ==
  \/ Register
  \/ Unregister
  \/ List

\* The refresh notifier and ListTools.
SpecRefresh == Init /\ [][NextRefresh]_vars

\* ------------------------------------- requests in flight together
FullBag(name) ==
  Bag([f \in FieldsOf(name) |-> "truthy"])

\* The inputs of the concurrent requests: one that the switch accepts, one that
\* misses a required argument, one without an arguments bag and one that names
\* no tool.
GateInputs ==
  { [name |-> "create_record", args |-> FullBag("create_record")],
    [name |-> "delete_user", args |-> Bag(EmptyBag)],
    [name |-> "create_record", args |-> Undefined],
    [name |-> "no_such_tool", args |-> Bag(EmptyBag)] }

CallToolAny(c) ==
  \E input \in GateInputs :
    \/ CallToolDirect(c, input.name, input.args)
    \/ \E requestId \in RequestIds : CallToolGated(c, input.name, input.args, requestId)

NextGate ==
  \/ \E c \in Calls : CallToolAny(c)
  \/ Approve
  \/ \E c \in Calls : ResumeCall(c)
  \/ \E c \in Calls : Reply(c)

\* Several CallTool requests, every interleaving with the approvals.
SpecGate == Init /\ [][NextGate]_vars

\* The same, where a handler that can continue does (the event loop runs every
\* continuation that is ready) and every awaited external operation settles.
\* Nothing makes an approver call handleToolApproval.
SpecGateFair ==
  /\ SpecGate
  /\ \A c \in Calls : WF_vars(ResumeCall(c)) /\ WF_vars(Reply(c))

\* ------------------------------------------------- read_records requests
FilterKeyNames == <<"published", "age", "status">>

FilterKeys == {FilterKeyNames[i] : i \in 1..MaxFilterFields}

Operators == {"gt", "lt"}

\* The sequences without repetition over S, of length at most n.
Orderings(S, n) ==
  UNION {{s \in [1..k -> S] : \A i, j \in 1..k : i # j => s[i] # s[j]} : k \in 0..n}

\* The scalar v, and the mappings {op: v, ...} over the operators.
FilterValues ==
  {Scalar("v")} \cup
  {Mapping([i \in 1..Len(o) |-> [op |-> o[i], val |-> Scalar("v")]]) :
     o \in Orderings(Operators, Cardinality(Operators))}

Filters ==
  UNION {{f \in [1..Len(ks) -> [key : FilterKeys, value : FilterValues]] :
            \A i \in 1..Len(ks) : f[i].key = ks[i]} : ks \in Orderings(FilterKeys, MaxFilterFields)}

\* The types of a join spec: omitted, the four the switch has a case for, and
\* one it has none for.
JoinTypes == {"", "inner", "left", "right", "full", "cross"}

JoinLists ==
  UNION {[1..n -> [type : JoinTypes, table : {"users"}, on : {"posts.user_id=users.id"}]] :
         n \in 0..MaxJoins}

\* Every filter with no joins, and every joins list with no filter or the
\* filter {published: v}.
ReadInputs ==
  {ReadArgs(filter, Absent) : filter \in {Absent} \cup {Given(f) : f \in Filters}}
    \cup {ReadArgs(filter, Given(j)) :
            filter \in {Absent, Given(<<[key |-> "published", value |-> Scalar("v")]>>)},
            j \in JoinLists}

CallRead(c) ==
  \E args \in ReadInputs :
    \/ CallToolDirect(c, "read_records", args)
    \/ \E requestId \in RequestIds : CallToolGated(c, "read_records", args, requestId)

\* An update or delete request of the running build, every filter.
CallWrite(c) ==
  \E filter \in {Absent} \cup {Given(f) : f \in Filters} :
    \/ \E name \in {"update_record", "delete_record"} :
         CallToolDirect(c, name, WriteArgs(filter))
    \/ \E name \in {"update_records", "delete_records"}, requestId \in RequestIds :
         CallToolGated(c, name, WriteArgs(filter), requestId)

NextRead ==
  \/ CallRead(1)
  \/ CallWrite(1)
  \/ Approve
  \/ ResumeCall(1)
  \/ Reply(1)

\* One read_records request, every filter and joins list.
SpecRead == Init /\ [][NextRead]_vars

\* ------------------------------------------------------------------ run()
TimeoutMessage == "SSE connection timeout after 30 seconds"

\* run(transport) up to its first await. stdio: server.connect is awaited at
\* once. sse (gated build only): the connection promise is created, its timer
\* armed, the routes installed and the listener started; run awaits the promise.
run(transport) ==
  /\ server.pc = "idle"
  /\ transport = "sse" => variant = "gated"
  /\ server' =
       IF transport = "sse"
       THEN [server EXCEPT !.pc = "awaitingConnection", !.transport = "sse", !.promise = "pending",
                           !.timeoutId = "armed", !.httpServer = "listening"]
       ELSE [server EXCEPT !.pc = "connecting", !.transport = "stdio"]
  /\ UNCHANGED <<variant, calls, toolApprovalCallbacks, toolRefreshCallbacks, unregisterFns, refreshes>>

\* clearTimeout(timeoutId): a timer that has fired stays fired.
clearTimeout(timeoutId) == IF timeoutId = "armed" THEN "cleared" ELSE timeoutId

SettleMutant(srv, outcome, reason, transport) ==
  [srv EXCEPT !.promise = outcome, !.reason = reason, !.value = transport]

\* resolve(transport) / reject(error) of the connection promise: only a pending
\* promise settles. Transports are numbered in the order they are started.
Settle(srv, outcome, reason, transport) ==
  IF srv.promise = "pending"
  THEN [srv EXCEPT !.promise = outcome, !.reason = reason, !.value = transport]
  ELSE srv

\* app.get('/sse'): the transport is made and started; then the timer is
\* cleared and the promise resolved, or rejected with what start threw.
getSse(started) ==
  /\ server.httpServer = "listening"
  /\ server.streams < MaxStreams
  /\ server' =
       LET cleared == [server EXCEPT !.timeoutId = clearTimeout(@)] IN
       IF started
       THEN [Settle(cleared, "resolved", "", server.streams + 1) EXCEPT !.streams = @ + 1]
       ELSE Settle(cleared, "rejected", "transport.start failed", 0)
  /\ UNCHANGED <<variant, calls, toolApprovalCallbacks, toolRefreshCallbacks, unregisterFns, refreshes>>

\* The setTimeout callback, 30000 ms after run: reject(new Error(...)).
timeout ==
  /\ server.timeoutId = "armed"
  /\ server' = Settle([server EXCEPT !.timeoutId = "fired"], "rejected", TimeoutMessage, 0)
  /\ UNCHANGED <<variant, calls, toolApprovalCallbacks, toolRefreshCallbacks, unregisterFns, refreshes>>

\* run continues after `await sseConnectionPromise`: on to server.connect, or
\* into the catch (httpServer.close(); throw error).
runResumes ==
  /\ server.pc = "awaitingConnection"
  /\ server.promise # "pending"
  /\ server' =
       IF server.promise = "resolved" THEN [server EXCEPT !.pc = "connecting"]
       ELSE [server EXCEPT !.pc = "failed", !.httpServer = "closed", !.error = server.reason]
  /\ UNCHANGED <<variant, calls, toolApprovalCallbacks, toolRefreshCallbacks, unregisterFns, refreshes>>

\* `await this.server.connect(transport)` settles. connect starts the transport
\* it is given (in sse mode one the GET handler has started already) and may
\* reject; in sse mode the catch then closes the listener.
connect(connected) ==
  /\ server.pc = "connecting"
  /\ server' =
       IF connected
       THEN [server EXCEPT !.pc = "running", !.connected = server.transport,
                           !.attached = server.value]
       ELSE [server EXCEPT !.pc = "failed", !.error = "server.connect failed",
                           !.httpServer = IF server.transport = "sse" THEN "closed" ELSE @]
  /\ UNCHANGED <<variant, calls, toolApprovalCallbacks, toolRefreshCallbacks, unregisterFns, refreshes>>

\* app.post('/message') up to `await sseConnectionPromise`.
postMessage ==
  /\ server.httpServer = "listening"
  /\ Len(server.posts) < MaxPosts
  /\ server' = [server EXCEPT !.posts = Append(@, [by |-> 0, streams |-> server.streams])]
  /\ UNCHANGED <<variant, calls, toolApprovalCallbacks, toolRefreshCallbacks, unregisterFns, refreshes>>

\* The handler of the i-th POST continues: transport.handlePostMessage(req, res)
\* on the promise's transport, or the catch (status 500, by = -1) when the
\* promise is rejected. (streams is history: the transports started by then.)
postResumes(i) ==
  /\ i \in 1..Len(server.posts)
  /\ server.posts[i].by = 0
  /\ server.promise # "pending"
  /\ server' = [server EXCEPT !.posts[i] =
       [by |-> IF server.promise = "resolved" THEN server.value ELSE -1,
        streams |-> server.streams]]
  /\ UNCHANGED <<variant, calls, toolApprovalCallbacks, toolRefreshCallbacks, unregisterFns, refreshes>>

\* A CallTool request reaches the handler over the connected transport.
Message(c) ==
  /\ server.connected # "none"
  /\ CallToolAny(c)

Run == \E transport \in {"stdio", "sse"} : run(transport)

GetSse == \E started \in BOOLEAN : getSse(started)

Connect == \E connected \in BOOLEAN : connect(connected)

PostResumes == \E i \in 1..MaxPosts : postResumes(i)

NextServe ==
  \/ Run
  \/ GetSse
  \/ timeout
  \/ runResumes
  \/ Connect
  \/ postMessage
  \/ PostResumes
  \/ Message(1)
  \/ Approve
  \/ ResumeCall(1)
  \/ Reply(1)

\* Startup, then requests over the transport.
SpecServe == Init /\ [][NextServe]_vars

\* ================================================================ claims
\* What the caller of call c got back.
Returned(c) == calls[c].pc = "returned"

Response(c) == calls[c].responses[1]

\* The text of the only content element of the envelope call c returned.
Text(c) == Response(c).envelope.content[1].text

IsErrorEnvelope(envelope) ==
  /\ DOMAIN envelope = {"content", "isError"}
  /\ envelope.isError = TRUE
  /\ Len(envelope.content) = 1
  /\ envelope.content[1].type = "text"

Names(text, word) == \E i \in 1..Len(text) : text[i] = word

DenialText == <<"Error:", "MCP error", "InvalidRequest", "Tool call was denied by user">>

\* the switch of the running build would reach an external operation
Dispatchable(c) ==
  /\ calls[c].name \in CatalogNames(variant)
  /\ calls[c].args.defined
  /\ \A f \in Required(variant, calls[c].name) :
       f \in DOMAIN calls[c].args.bag /\ calls[c].args.bag[f] = "truthy"

\* C1: in the gated build, a call whose pending ticket was resolved with
\* approved = false never invokes an external operation, and what it returns is
\* the error envelope with the denial message, which is no missing-parameter
\* message.
C1_DeniedCallIsNotDispatched ==
  \A c \in Calls :
    calls[c].approval = "denied" =>
      /\ calls[c].invoked = <<>>
      /\ calls[c].pc \in {"resumed", "returned"}
      /\ Returned(c) =>
           /\ Len(calls[c].responses) = 1
           /\ Response(c).kind = "return"
           /\ IsErrorEnvelope(Response(c).envelope)
           /\ Text(c) = DenialText
           /\ ~Names(Text(c), "Missing required parameter:")
           /\ ~Names(Text(c), "Missing required parameters:")

\* a denied call that the switch would have dispatched has returned
C1_Witness ==
  \E c \in Calls : calls[c].approval = "denied" /\ Returned(c) /\ Dispatchable(c)

\* C2: in the gated build no external operation of a call is invoked before
\* handleToolApproval has been called with that call's id and approved = true,
\* whatever the interleaving of calls and approvals.
C2_NoOperationBeforeApproval ==
  \A c \in Calls :
    (variant = "gated" /\ calls[c].invoked # <<>>) => calls[c].approvedSeen

\* one call has invoked its operation while another one is still suspended
C2_Witness ==
  \E c, d \in Calls :
    /\ variant = "gated"
    /\ calls[c].invoked # <<>>
    /\ calls[d].pc = "awaitingApproval"
    /\ ~calls[d].approvedSeen

\* C3: a ticket is resolved at most once. handleToolApproval(id, b) for an id
\* that has a ticket fixes the outcome of the ticket's call to b and removes the
\* ticket; for an id that has none it changes neither the ticket map nor any
\* call's outcome; and an outcome, once fixed, never changes.
C3_TicketResolvedOnce ==
  [][ /\ \A c \in Calls :
           calls[c].approval \in {"approved", "denied"} => calls'[c].approval = calls[c].approval
      /\ \A id \in RequestIds, b \in BOOLEAN :
           handleToolApproval(id, b) =>
             IF id \in DOMAIN toolApprovalCallbacks
             THEN /\ calls'[toolApprovalCallbacks[id]].approval = (IF b THEN "approved" ELSE "denied")
                  /\ id \notin DOMAIN toolApprovalCallbacks'
             ELSE /\ toolApprovalCallbacks' = toolApprovalCallbacks
                  /\ \A c \in Calls : calls'[c].approval = calls[c].approval
    ]_vars

\* The body of call c raised a fault: the tool is not one of the build's, its
\* arguments are absent where the build reads them, a tested argument is
\* missing, the file cannot be decoded, the approver denied, or the last
\* external operation failed.
Faulted(c) ==
  \/ calls[c].approval \in {"denied", "rejected"}
  \/ calls[c].name \notin CatalogNames(variant)
  \/ \E f \in Required(variant, calls[c].name) : ~Truthy(calls[c].args, f)
  \/ ~calls[c].args.defined /\ calls[c].name \notin {"list_projects", "list_organizations"}
  \/ /\ variant = "gated"
     /\ calls[c].name = "upload_file"
     /\ "file" \in DOMAIN calls[c].args.bag
     /\ calls[c].args.bag["file"] = "malformed"
  \/ /\ calls[c].replies # <<>>
     /\ calls[c].replies[Len(calls[c].replies)] \notin {"data", "ok"}

UnknownToolText(name) == <<"Error:", "MCP error", "MethodNotFound", "Unknown tool:", name>>

\* C5: for every tool name that is not in the catalog, CallTool returns
\* an error envelope whose message says the tool is unknown, and no external
\* operation is invoked.
C5_UnknownToolIsReported ==
  \A c \in Calls :
    (calls[c].pc # "idle" /\ calls[c].name \notin CatalogNames(variant)) =>
      /\ calls[c].invoked = <<>>
      /\ Returned(c) =>
           /\ Response(c).kind = "return"
           /\ IsErrorEnvelope(Response(c).envelope)
           /\ Text(c) = UnknownToolText(calls[c].name)

\* the required fields of its tool that the arguments of call c omit
OmittedRequired(c) ==
  {f \in Required(variant, calls[c].name) : Omitted(calls[c].args, f)}

NamesOmittedField(c) == \E f \in OmittedRequired(c) : Names(Text(c), f)

\* C6: for every catalog tool and every argument bag that omits a
\* required field, CallTool returns an error envelope whose message names at
\* least one missing field, and no external operation is invoked.
C6_MissingFieldIsNamed ==
  \A c \in Calls :
    (calls[c].name \in CatalogNames(variant) /\ OmittedRequired(c) # {}) =>
      /\ calls[c].invoked = <<>>
      /\ Returned(c) =>
           /\ Response(c).kind = "return"
           /\ IsErrorEnvelope(Response(c).envelope)
           /\ NamesOmittedField(c)

C8_UpstreamMessageIsSurfaced ==
  \A c \in Calls :
    \A i \in 1..Len(calls[c].replies) :
      calls[c].replies[i] \notin {"data", "ok"} =>
        /\ Len(calls[c].invoked) = 1
        /\ Returned(c) =>
             /\ IsErrorEnvelope(Response(c).envelope)
             /\ \A j \in 1..Len(UpstreamMessage(calls[c].invoked[i])) :
                  Names(Text(c), UpstreamMessage(calls[c].invoked[i])[j])

\* C9: each ListTools request invokes every listener registered at that time
\* exactly once, in registration order (so two listeners and two requests make
\* two invocations of each).
C9_EveryListenerOnceInOrder ==
  refreshes.count > 0 => refreshes.invoked = refreshes.registered

\* C10: a listener that throws during ListTools does not keep the remaining
\* listeners from being invoked nor ListTools from returning the catalog.
C10_ListenerFailureIsIsolated ==
  refreshes.threw # {} =>
    /\ Range(refreshes.invoked) = Range(refreshes.registered)
    /\ refreshes.result = Return(ListedTools(variant))

\* C11: the function onToolRefresh returns is idempotent. A call of it leaves
\* the callback absent from the listener set; a call made when the callback is
\* already absent (a second call) leaves the set as it is; and a ListTools
\* request handled while the callback is absent does not invoke it.
C11_UnregisterIsIdempotent ==
  [][ \A cb \in Callbacks :
        /\ unregister(cb) =>
              /\ cb \notin Range(toolRefreshCallbacks')
              /\ cb \notin Range(toolRefreshCallbacks) => toolRefreshCallbacks' = toolRefreshCallbacks
        /\ cb \notin Range(toolRefreshCallbacks) =>
              refreshes'.invocations[cb] = refreshes.invocations[cb]
    ]_vars

\* the unregister function of a callback was called twice, and a ListTools
\* request handled afterwards invoked the other listener and not this one
C11_Witness ==
  \E cb \in Callbacks :
    /\ refreshes.unregistered[cb] >= 2
    /\ cb \notin Range(toolRefreshCallbacks)
    /\ refreshes.count > 0
    /\ refreshes.invoked # <<>>
    /\ cb \notin Range(refreshes.registered)
    /\ refreshes.invocations[cb] = 0

\* The builder calls of call c that are neither from, select nor a join.
JoinMethodNames == {JoinMethods[t] : t \in DOMAIN JoinMethods}

ConstraintCalls(c) ==
  SelectSeq(calls[c].query,
            LAMBDA q : q.method \notin {"from", "select", "update", "delete"} \cup JoinMethodNames)

JoinCalls(c) == SelectSeq(calls[c].query, LAMBDA q : q.method \in JoinMethodNames)

\* What a builder call constrains: eq is equality, filter(key, op, val) is op.
Constraint(q) ==
  [field |-> q.key, operator |-> IF q.method = "filter" THEN q.op ELSE q.method,
   value |-> q.value]

\* The constraints a filter stands for.
FilterConstraints(entries) ==
  UNION {IF entries[i].value.kind = "scalar"
         THEN {[field |-> entries[i].key, operator |-> "eq", value |-> entries[i].value]}
         ELSE {[field |-> entries[i].key, operator |-> entries[i].value.ops[k].op,
                value |-> entries[i].value.ops[k].val] : k \in 1..Len(entries[i].value.ops)} :
         i \in 1..Len(entries)}

\* call c is a read_records request whose query has been handed to the client
Reading(c) == calls[c].name = "read_records" /\ calls[c].invoked # <<>>

OneSelect(c) ==
  /\ calls[c].invoked[1] = "from.select"
  /\ Cardinality({i \in 1..Len(calls[c].query) : calls[c].query[i].method = "from"}) = 1
  /\ Cardinality({i \in 1..Len(calls[c].query) : calls[c].query[i].method = "select"}) = 1

\* C12: the filter of a read_records request becomes one equality constraint
\* per top-level field with a scalar value and one constraint of operator op per
\* entry {op: v} of a field with a mapping value, and nothing else, all on the
\* one query of the call.
C12_FilterIsTranslated ==
  \A c \in Calls :
    (Reading(c) /\ FilterOf(calls[c].args).given) =>
      /\ {Constraint(q) : q \in Range(ConstraintCalls(c))}
           = FilterConstraints(FilterOf(calls[c].args).entries)
      /\ Len(ConstraintCalls(c)) = Cardinality(FilterConstraints(FilterOf(calls[c].args).entries))
      /\ OneSelect(c)

\* every spec of the list omits its type or has one of the four join types
WellTyped(joins) == \A i \in 1..Len(joins) : JoinType(joins[i]) \in DOMAIN JoinMethods

JoinTypeOf(method) == CHOOSE t \in DOMAIN JoinMethods : JoinMethods[t] = method

\* C13: the joins of a read_records request become one join per spec, in list
\* order, of the spec's type (left when the type is omitted), with the spec's
\* table and condition, on the one select query of the call, next to the
\* constraints of the filter.
C13_JoinsAreTranslated ==
  \A c \in Calls :
    (Reading(c) /\ JoinsOf(calls[c].args).given /\ WellTyped(JoinsOf(calls[c].args).entries)) =>
      LET joins == JoinsOf(calls[c].args).entries IN
      /\ Len(JoinCalls(c)) = Len(joins)
      /\ \A i \in 1..Len(joins) :
            /\ i <= Len(JoinCalls(c))
            /\ JoinTypeOf(JoinCalls(c)[i].method) = (IF joins[i].type = "" THEN "left" ELSE joins[i].type)
            /\ JoinCalls(c)[i].key = joins[i].table
            /\ JoinCalls(c)[i].op = joins[i].on
      /\ OneSelect(c)
      /\ Len(ConstraintCalls(c)) = Len(FilterOf(calls[c].args).entries)

\* the last external operation of call c succeeded
Succeeded(c) ==
  /\ calls[c].replies # <<>>
  /\ calls[c].replies[Len(calls[c].replies)] \in {"data", "ok"}

LastInvoked(c) == calls[c].invoked[Len(calls[c].invoked)]

OneTextElement(envelope) ==
  /\ Len(envelope.content) = 1
  /\ envelope.content[1].type = "text"

IsErrorExactlyOnFault(c) ==
  ("isError" \in DOMAIN Response(c).envelope /\ Response(c).envelope.isError) <=> Faulted(c)

\* C14 as stated: every envelope CallTool returns has one content element, of
\* type text; after a successful external operation the text is the
\* serialization of the operation's result and isError is absent; isError is
\* true exactly when the call ended in a fault.
C14_EnvelopeShape ==
  \A c \in Calls :
    Returned(c) =>
      /\ Response(c).kind = "return"
      /\ OneTextElement(Response(c).envelope)
      /\ Succeeded(c) =>
           /\ Text(c) = Stringify(UpstreamData(LastInvoked(c)))
           /\ "isError" \notin DOMAIN Response(c).envelope
      /\ IsErrorExactlyOnFault(c)

\* The tools whose case returns the serialization of the answer's data.
DataTools == {name \in DOMAIN Handlers(variant) : Handlers(variant)[name].success = "data"}

\* C14 as amended: the same, where the text after a success is the
\* serialization of the operation's result for the tools that return data, and
\* for the others (the deletions and role changes, list_tables) a text that is
\* no error message: an acknowledgement or the serialized table list.
C14_EnvelopeShapeByTool ==
  \A c \in Calls :
    Returned(c) =>
      /\ Response(c).kind = "return"
      /\ OneTextElement(Response(c).envelope)
      /\ Succeeded(c) =>
           /\ "isError" \notin DOMAIN Response(c).envelope
           /\ Text(c) # <<>>
           /\ Text(c)[1] # "Error:"
           /\ calls[c].name \in DataTools => Text(c) = Stringify(UpstreamData(LastInvoked(c)))
           /\ calls[c].name \notin DataTools \cup {"list_tables"} =>
                ~Names(Text(c), "data of")
      /\ IsErrorExactlyOnFault(c)

\* a call of a tool that acknowledges has returned after its operation succeeded
C14_Witness ==
  \E c \in Calls :
    /\ Returned(c)
    /\ Succeeded(c)
    /\ calls[c].name = "delete_user"

\* C15: in sse mode, when the timer fires before a client has established the
\* stream, run() fails with the timeout error, the listener is closed and the
\* server is never connected (no request is ever handled); when a client
\* establishes the stream first, the timer is cancelled and run() does not fail.
C15_SseStartup ==
  /\ server.timeoutId = "fired" =>
       /\ server.promise = "rejected"
       /\ server.connected = "none"
       /\ \A c \in Calls : calls[c].pc = "idle"
       /\ server.pc \in {"awaitingConnection", "failed"}
       /\ server.pc = "failed" => (server.httpServer = "closed" /\ server.error = TimeoutMessage)
  /\ (server.transport = "sse" /\ server.promise = "resolved") =>
       /\ server.timeoutId = "cleared"
       /\ server.pc # "failed"

\* a required field of its tool is missing from the arguments of call c
MissesRequired(c) ==
  /\ calls[c].name \in CatalogNames(variant)
  /\ \E f \in Required(variant, calls[c].name) : ~Truthy(calls[c].args, f)

\* a ticket was stored for call c, or c is suspended on one
Ticketed(c) ==
  \/ calls[c].requestId # 0
  \/ calls[c].notifications # <<>>
  \/ calls[c].pc \in {"awaitingApproval", "resumed"}
  \/ \E id \in DOMAIN toolApprovalCallbacks : toolApprovalCallbacks[id] = c

\* C16: a call is validated before it is submitted to the approval gate: for a
\* call of the gated build that misses a required argument no ticket is created
\* and none is awaited; the call is rejected at once.
C16_ValidatedBeforeApproval ==
  \A c \in Calls :
    (variant = "gated" /\ calls[c].pc # "idle" /\ MissesRequired(c)) =>
      /\ ~Ticketed(c)
      /\ Returned(c)
      /\ calls[c].invoked = <<>>

\* C17: a call that names no tool of the catalog gets its MethodNotFound error
\* at once: it is never suspended on a ticket and its response depends on no
\* handleToolApproval.
C17_UnknownToolSurfacedImmediately ==
  \A c \in Calls :
    (calls[c].pc # "idle" /\ calls[c].name \notin CatalogNames(variant)) =>
      /\ ~Ticketed(c)
      /\ Returned(c)
      /\ Text(c) = UnknownToolText(calls[c].name)

\* C18: a call that reaches the approval gate emits exactly one notification,
\* carrying the id its ticket is stored under, the tool name and the raw
\* arguments; when it is emitted the ticket is in the map and the call is
\* suspended on it (it cannot have been resolved before); no other
\* notification follows.
C18_OneNotificationPerGatedCall ==
  [][ \A c \in Calls :
        /\ (variant = "gated" /\ calls[c].pc = "idle" /\ calls'[c].pc # "idle") =>
              /\ Len(calls'[c].notifications) = 1
              /\ calls'[c].notifications[1] =
                   Notification(calls'[c].requestId, calls'[c].name, calls'[c].args)
              /\ calls'[c].requestId \in DOMAIN toolApprovalCallbacks'
              /\ toolApprovalCallbacks'[calls'[c].requestId] = c
              /\ calls'[c].pc = "awaitingApproval"
        /\ calls[c].pc # "idle" => calls'[c].notifications = calls[c].notifications
    ]_vars

\* call c is suspended on its approval promise
Pending(c) == calls[c].pc = "awaitingApproval"

\* C19: in the gated build the keys of the ticket map are exactly the ids of
\* the calls suspended on their approval, each ticket being that of its call;
\* no ticket is left for a call that has returned.
C19_TicketsAreTheSuspendedCalls ==
  variant = "gated" =>
    /\ DOMAIN toolApprovalCallbacks = {calls[c].requestId : c \in {d \in Calls : Pending(d)}}
    /\ \A id \in DOMAIN toolApprovalCallbacks :
         /\ Pending(toolApprovalCallbacks[id])
         /\ calls[toolApprovalCallbacks[id]].requestId = id

\* the ids drawn for the calls made so far differ from one another
DistinctIds ==
  \A c, d \in Calls :
    (c # d /\ calls[c].pc # "idle" /\ calls[d].pc # "idle") => calls[c].requestId # calls[d].requestId

\* C20: with calls pending under distinct ids, handleToolApproval(id, b)
\* resumes the call that created id, with outcome b, and removes its ticket;
\* every other call is left as it is, a pending one suspended with its ticket
\* in the map.
C20_ApprovalResumesOnlyItsCall ==
  [][ \A id \in RequestIds, b \in BOOLEAN :
        (/\ handleToolApproval(id, b)
         /\ DistinctIds
         /\ \E c \in Calls : Pending(c) /\ calls[c].requestId = id) =>
          \A c \in Calls :
            IF Pending(c) /\ calls[c].requestId = id
            THEN /\ calls'[c].pc = "resumed"
                 /\ calls'[c].approval = (IF b THEN "approved" ELSE "denied")
                 /\ id \notin DOMAIN toolApprovalCallbacks'
            ELSE /\ calls'[c] = calls[c]
                 /\ Pending(c) =>
                      /\ calls[c].requestId \in DOMAIN toolApprovalCallbacks'
                      /\ toolApprovalCallbacks'[calls[c].requestId] = c
    ]_vars

\* a call was resumed while another was pending under a different id, and the
\* other is still suspended with its ticket
C20_Witness ==
  \E c, d \in Calls :
    /\ c # d
    /\ DistinctIds
    /\ calls[c].concurrent
    /\ calls[c].approval = "denied"
    /\ Pending(d)
    /\ calls[d].requestId \in DOMAIN toolApprovalCallbacks
    /\ toolApprovalCallbacks[calls[d].requestId] = d

\* call c has passed the validation of its case and, in the gated build, the
\* approval gate
Passed(c) ==
  /\ calls[c].pc \in {"awaitingCollaborator", "returned"}
  /\ calls[c].name \in CatalogNames(variant)
  /\ calls[c].args.defined
  /\ \A f \in Required(variant, calls[c].name) : Truthy(calls[c].args, f)
  /\ variant = "gated" => calls[c].approval = "approved"

SomeReplyFailed(c) == \E i \in 1..Len(calls[c].replies) : calls[c].replies[i] \notin {"data", "ok"}

Undecodable(c) ==
  /\ variant = "gated"
  /\ calls[c].name = "upload_file"
  /\ calls[c].args.bag["file"] = "malformed"

C22_WriteFilterIsTranslated ==
  \A c \in Calls :
    (calls[c].name \in WriteTools /\ calls[c].invoked # <<>> /\ FilterOf(calls[c].args).given) =>
      /\ {Constraint(q) : q \in Range(ConstraintCalls(c))}
           = FilterConstraints(FilterOf(calls[c].args).entries)
      /\ Len(ConstraintCalls(c)) = Cardinality(FilterConstraints(FilterOf(calls[c].args).entries))

Listing == refreshes'.count = refreshes.count + 1

\* C24: the listener set keeps one entry per callback. A callback that
\* onToolRefresh was given twice is invoked exactly once by each ListTools
\* request handled while it is registered; one call of either unregister
\* function removes it, and no later ListTools request invokes it.
C24_ListenersAreDeduplicated ==
  [][ \A cb \in Callbacks :
        /\ (unregisterFns[cb] >= 2 /\ Listing /\ cb \in Range(toolRefreshCallbacks)) =>
              refreshes'.invocations[cb] = refreshes.invocations[cb] + 1
        /\ (unregisterFns[cb] >= 2 /\ unregister(cb)) => cb \notin Range(toolRefreshCallbacks')
        /\ (Listing /\ cb \notin Range(toolRefreshCallbacks)) =>
              refreshes'.invocations[cb] = refreshes.invocations[cb]
    ]_vars

\* the resolver of the approval promise of call c is in the ticket map
HoldsTicket(c) ==
  /\ calls[c].requestId \in DOMAIN toolApprovalCallbacks
  /\ toolApprovalCallbacks[calls[c].requestId] = c

\* call c is suspended on a promise whose resolver is not in the ticket map
Orphaned(c) == Pending(c) /\ ~HoldsTicket(c)

\* C25: when a call draws the id under which another call is pending, its
\* resolver replaces the other's in the ticket map; handleToolApproval with
\* that id resumes the later call only, and the earlier call stays suspended
\* in every step that follows, whatever handleToolApproval is called with.
C25_CollidingIdKeepsLaterResolver ==
  [][ \A c \in Calls :
        /\ Orphaned(c) =>
             /\ Orphaned(c)'
             /\ calls'[c].approval = "none"
             /\ calls'[c].responses = <<>>
        /\ \A d \in Calls \ {c} :
             /\ (Pending(c) /\ calls[d].pc = "idle" /\ Pending(d)'
                   /\ calls'[d].requestId = calls[c].requestId) =>
                   (toolApprovalCallbacks'[calls[c].requestId] = d /\ Orphaned(c)')
             /\ \A b \in BOOLEAN :
                  (Orphaned(c) /\ Pending(d) /\ HoldsTicket(d)
                    /\ calls[d].requestId = calls[c].requestId
                    /\ handleToolApproval(calls[c].requestId, b)) =>
                    /\ calls'[d].pc = "resumed"
                    /\ calls'[d].approval = (IF b THEN "approved" ELSE "denied")
                    /\ Pending(c)'
    ]_vars

\* two calls were pending under one id, the later was resumed and the id is
\* gone from the map; the earlier is still suspended
C25_Witness ==
  \E c, d \in Calls :
    /\ c # d
    /\ Orphaned(c)
    /\ calls[d].requestId = calls[c].requestId
    /\ calls[d].concurrent
    /\ calls[d].approval = "approved"
    /\ calls[c].requestId \notin DOMAIN toolApprovalCallbacks

\* the handler of call c has entered the switch with an arguments object
ReachedSwitch(c) ==
  /\ calls[c].pc \in {"awaitingCollaborator", "returned"}
  /\ calls[c].args.defined
  /\ variant = "gated" => calls[c].approval = "approved"

\* call c was answered with the missing-parameter error
RejectedAsIncomplete(c) ==
  /\ Returned(c)
  /\ Len(Text(c)) >= 4
  /\ SubSeq(Text(c), 1, 3) = <<"Error:", "MCP error", "InvalidParams">>
  /\ Text(c)[4] \in {"Missing required parameter:", "Missing required parameters:"}

\* the fields the missing-parameter error of call c lists
FieldsChecked(c) == {Text(c)[i] : i \in 5..Len(Text(c))}

\* C26: in each build the catalog and the switch agree. The names with a case
\* are the names listed; the arguments a case tests are the tool's `required`
\* list; accordingly a call that enters the switch is answered 'Unknown tool'
\* exactly when its name is not listed, and is rejected as incomplete exactly
\* when a field of the listed `required` is not truthy, the error listing
\* that `required` set.
C26_CatalogAgreesWithDispatcher ==
  /\ DOMAIN Handlers(variant) = CatalogNames(variant)
  /\ \A name \in CatalogNames(variant) :
       Range(Handlers(variant)[name].check) = Required(variant, name)
  /\ \A c \in Calls :
       ReachedSwitch(c) =>
         IF calls[c].name \in CatalogNames(variant)
         THEN /\ Returned(c) => Text(c) # UnknownToolText(calls[c].name)
              /\ MissesRequired(c) <=> RejectedAsIncomplete(c)
              /\ RejectedAsIncomplete(c) => FieldsChecked(c) = Required(variant, calls[c].name)
         ELSE /\ Returned(c)
              /\ Text(c) = UnknownToolText(calls[c].name)

\* a call whose tool lists several required fields gave the first and not
\* another, and was rejected
C26_Witness ==
  \E c \in Calls :
    /\ ReachedSwitch(c)
    /\ calls[c].name \in CatalogNames(variant)
    /\ Cardinality(Required(variant, calls[c].name)) >= 2
    /\ Truthy(calls[c].args, Handlers(variant)[calls[c].name].check[1])
    /\ RejectedAsIncomplete(c)

\* the arguments of call c give a required field of its tool a falsy value
\* (empty string, 0, false, null)
FalsyRequired(c) ==
  /\ calls[c].name \in CatalogNames(variant)
  /\ \E f \in Required(variant, calls[c].name) :
       f \in DOMAIN calls[c].args.bag /\ calls[c].args.bag[f] = "falsy"

ListingTables(c) ==
  /\ variant = "gated"
  /\ calls[c].name = "list_tables"
  /\ ReachedSwitch(c)

C29_OneResponsePerCall ==
  \A c \in Calls :
    /\ Len(calls[c].responses) <= 1
    /\ variant = "gated" =>
         /\ (Pending(c) \/ HoldsTicket(c)) => calls[c].responses = <<>>
         /\ Returned(c) =>
              /\ Len(calls[c].responses) = 1
              /\ calls[c].approval \in {"approved", "denied"}
              /\ Len(calls[c].replies) = Len(calls[c].invoked)
              /\ calls[c].approval = "denied" => calls[c].invoked = <<>>

\* the specs of a joins list whose type the switch has a case for
Recognised(joins) == SelectSeq(joins, LAMBDA j : JoinType(j) \in DOMAIN JoinMethods)

\* C30: in read_records of the gated build a join spec whose type is none of
\* inner, left, right, full is skipped: the query is built and handed to the
\* client without a fault, and its joins are those of the other specs of the
\* list, one each, in list order, next to the constraints of the filter.
C30_UnknownJoinTypeIsSkipped ==
  \A c \in Calls :
    (/\ variant = "gated"
     /\ calls[c].name = "read_records"
     /\ ReachedSwitch(c)
     /\ JoinsOf(calls[c].args).given) =>
      LET joins == Recognised(JoinsOf(calls[c].args).entries) IN
      /\ calls[c].invoked = <<"from.select">>
      /\ Len(JoinCalls(c)) = Len(joins)
      /\ \A i \in 1..Len(joins) :
           /\ i <= Len(JoinCalls(c))
           /\ JoinCalls(c)[i].method = JoinMethods[JoinType(joins[i])]
           /\ JoinCalls(c)[i].key = joins[i].table
           /\ JoinCalls(c)[i].op = joins[i].on
      /\ OneSelect(c)
      /\ Len(ConstraintCalls(c)) = Len(FilterOf(calls[c].args).entries)
      /\ Returned(c) /\ Succeeded(c) => ~IsErrorEnvelope(Response(c).envelope)

\* a read_records call whose joins list has an unrecognised type between two
\* recognised ones has been answered
C30_Witness ==
  \E c \in Calls :
    /\ variant = "gated"
    /\ calls[c].name = "read_records"
    /\ Returned(c)
    /\ Succeeded(c)
    /\ JoinsOf(calls[c].args).given
    /\ LET joins == JoinsOf(calls[c].args).entries IN
         /\ Len(joins) = 3
         /\ joins[1].type = "inner"
         /\ joins[2].type = "cross"
         /\ joins[3].type = "right"
    /\ Len(JoinCalls(c)) = 2

====
